---------------------------- MODULE Spec2Model ----------------------------
(***************************************************************************)
(* HRMS backend: account directory, JWT authentication, the credential     *)
(* hasher and the createUser, login, getUsers and createDepartment request *)
(* handlers, as a state machine.                                           *)
(*                                                                         *)
(* Every request is a task that runs from one persistence-store access to  *)
(* the next; each action below is one such stretch of a handler.  The      *)
(* store is read committed: every query sees the rows committed so far.    *)
(***************************************************************************)
EXTENDS Integers, Sequences, FiniteSets, TLC

VARIABLES
    users,        \* rows of table "users", in insertion order
    nextUserId,   \* next value of the users.id sequence
    departments,  \* rows of table "departments"
    offices,      \* rows of table "offices"
    now,          \* the wall clock, in ticks (TicksPerSecond to a second)
    ticks,        \* how many times the clock has been advanced
    reqs,         \* the request tasks: per slot, the handler's locals and position
    issued,       \* the last call of create_access_token: arguments and result
    verdict,      \* the last call of decode_access_token: arguments and result
    hasher        \* the last calls of get_password_hash and verify_password

vars == <<users, nextUserId, departments, offices, now, ticks, reqs, issued, verdict,
          hasher>>

store == <<users, nextUserId, departments, offices>>
clock == <<now, ticks>>
tokens == <<issued, verdict>>

---------------------------------------------------------------------------
(* Bounds of the model *)

\* request slots: how many requests can be in flight together
MaxReq == 2
\* distinct e-mail addresses callers use
NumEmails == 2
\* how many times the clock advances
MaxTicks == 1
\* how many salts bcrypt.gensalt can draw
NumSalts == 1
\* resolution of the clock: ticks to a second
TicksPerSecond == 2

Procs == 1..MaxReq
Emails == 1..NumEmails

---------------------------------------------------------------------------
(* Program constants and enumerations *)

ACCESS_TOKEN_EXPIRE_MINUTES == 30
SECRET_KEY == "your-secret-key-change-this-in-production-use-env-variable"
ALGORITHM == "HS256"
BcryptMaxBytes == 72
BcryptRounds == 12

EMPLOYEE == "employee"
HR == "hr"
SUB_ADMIN == "sub_admin"
ADMIN == "admin"
UserRole == {EMPLOYEE, HR, SUB_ADMIN, ADMIN}

ACTIVE == "active"
INACTIVE == "inactive"
UserStatus == {ACTIVE, INACTIVE}

\* Python's None in an Optional[int]
NoId == -1

STATIC_DEPARTMENTS ==
    << "Project Management", "Tech/Automation", "It", "HR & Administration",
       "Finance anf accounts", "Marketing and outreach", "Translation", "SRT",
       "Dubing", "Post Production and audio Enginering", "Quality control",
       "Factory" >>

STATIC_OFFICES ==
    << "Head office A", "Head office B", "Kolkata", "Factory", "Remote" >>

---------------------------------------------------------------------------
(* Small helpers *)

Min(a, b) == IF a < b THEN a ELSE b

Range(s) == { s[i] : i \in 1..Len(s) }

\* scalar_one_or_none() of select(User).where(User.email == email)
UserByEmail(us, email) ==
    LET hits == { i \in 1..Len(us) : us[i].email = email }
    IN  IF hits = {} THEN {} ELSE { us[CHOOSE i \in hits : TRUE] }

\* scalar_one_or_none() of select(User).where(User.id == id)
UserById(us, id) ==
    LET hits == { i \in 1..Len(us) : us[i].id = id }
    IN  IF hits = {} THEN {} ELSE { us[CHOOSE i \in hits : TRUE] }

\* current_user is None
NoUser ==
    [ id |-> NoId, email |-> 0,
      password_hash |-> [ wellformed |-> FALSE, rounds |-> 0, salt |-> 0, key |-> <<>> ],
      role |-> "none",
      status |-> "none", department_id |-> NoId, office_id |-> NoId,
      manager_id |-> NoId ]

---------------------------------------------------------------------------
(* Credential hasher: app/core/security.py *)

\* str.encode('utf-8') of a string given as its code points (below 2048)
Utf8(cp) ==
    IF cp < 128 THEN << cp >> ELSE << 192 + (cp \div 64), 128 + (cp % 64) >>

RECURSIVE Encode(_)
Encode(s) == IF s = <<>> THEN <<>> ELSE Utf8(Head(s)) \o Encode(Tail(s))

\* password_bytes[:72] when longer than 72 bytes
Truncate(bytes) ==
    IF Len(bytes) > BcryptMaxBytes THEN SubSeq(bytes, 1, BcryptMaxBytes) ELSE bytes

\* bcrypt.hashpw(password_bytes, salt): a one-way digest that carries its salt
\* and cost; the digest is a function of the salt and the bytes hashed
BcryptHash(bytes, salt) ==
    [ wellformed |-> TRUE, rounds |-> BcryptRounds, salt |-> salt, key |-> bytes ]

get_password_hash(password, salt) == BcryptHash(Truncate(Encode(password)), salt)

\* verify_password without the truncation: bcrypt.checkpw gets all the bytes
verify_password_untruncated(plain_password, hashed_password) ==
    IF ~hashed_password.wellformed
    THEN FALSE
    ELSE BcryptHash(Encode(plain_password), hashed_password.salt) = hashed_password

\* bcrypt.checkpw raises on a digest it cannot parse; the except clause
\* turns every exception into False
verify_password(plain_password, hashed_password) ==
    IF ~hashed_password.wellformed
    THEN FALSE
    ELSE BcryptHash(Truncate(Encode(plain_password)), hashed_password.salt)
             = hashed_password

---------------------------------------------------------------------------
(* Token service: app/core/security.py *)

\* a datetime as jose writes it into the payload: whole epoch seconds
Timegm(t) == t \div TicksPerSecond

\* timedelta(minutes = m), in ticks
Minutes(m) == m * 60 * TicksPerSecond

\* no expires_delta argument (None)
NoDelta == -1

\* str(user.id): the decimal digits
RECURSIVE Str(_)
Str(n) == IF n < 10 THEN << n >> ELSE Str(n \div 10) \o << n % 10 >>

\* characters are digits 0..9; anything else is not a digit
IsDigits(s) == Len(s) > 0 /\ \A i \in 1..Len(s) : s[i] \in 0..9

\* int(user_id) for a string of digits
RECURSIVE ParseInt(_)
ParseInt(s) ==
    IF s = <<>> THEN 0 ELSE 10 * ParseInt(SubSeq(s, 1, Len(s) - 1)) + s[Len(s)]

\* jwt.encode(to_encode, key, algorithm): a token is its claims together with
\* the key and algorithm that signed it
JwtEncode(claims, key, alg) ==
    [ kind |-> "jwt", key |-> key, alg |-> alg, hasSub |-> claims.hasSub,
      sub |-> claims.sub, email |-> claims.email, role |-> claims.role,
      exp |-> claims.exp ]

create_access_token(data, expires_delta, t) ==
    LET expire == IF expires_delta # NoDelta /\ expires_delta # 0
                  THEN t + expires_delta
                  ELSE t + Minutes(ACCESS_TOKEN_EXPIRE_MINUTES)
    IN  JwtEncode([ hasSub |-> data.hasSub, sub |-> data.sub, email |-> data.email,
                    role |-> data.role, exp |-> Timegm(expire) ],
                  SECRET_KEY, ALGORITHM)

\* decode_access_token returns None
NoPayload ==
    [ valid |-> FALSE, hasSub |-> FALSE, sub |-> <<>>, email |-> 0,
      role |-> "none", exp |-> 0 ]

\* decode_access_token with the expiry left unverified
decode_ignoring_expiry(token, t) ==
    IF token.kind # "jwt" THEN NoPayload
    ELSE IF token.alg # ALGORITHM \/ token.key # SECRET_KEY THEN NoPayload
    ELSE [ valid |-> TRUE, hasSub |-> token.hasSub, sub |-> token.sub,
           email |-> token.email, role |-> token.role, exp |-> token.exp ]

\* jwt.decode raises JWTError for a token that does not parse, for a header
\* algorithm outside algorithms, for a signature made with another key and
\* (ExpiredSignatureError) for exp < now in whole seconds
decode_access_token(token, t) ==
    IF token.kind # "jwt" THEN NoPayload
    ELSE IF token.alg # ALGORITHM \/ token.key # SECRET_KEY THEN NoPayload
    ELSE IF token.exp < Timegm(t) THEN NoPayload
    ELSE [ valid |-> TRUE, hasSub |-> token.hasSub, sub |-> token.sub,
           email |-> token.email, role |-> token.role, exp |-> token.exp ]

\* no Authorization header (credentials is None)
NoCred ==
    [ kind |-> "none", key |-> "", alg |-> "", hasSub |-> FALSE, sub |-> <<>>,
      email |-> 0, role |-> "none", exp |-> 0 ]

\* a bearer string that is not a JWT
Malformed ==
    [ kind |-> "malformed", key |-> "", alg |-> "", hasSub |-> FALSE,
      sub |-> <<>>, email |-> 0, role |-> "none", exp |-> 0 ]

---------------------------------------------------------------------------
(* Identity resolution and the authorization policy: app/api/users.py *)

\* get_current_user_optional: the account the bearer token stands for, or
\* None; int(user_id) raises ValueError for a subject that is not a number
get_current_user_optional(credentials, us, t) ==
    LET payload == decode_access_token(credentials, t)
        found   == UserById(us, ParseInt(payload.sub))
    IN  IF credentials.kind = "none" THEN [ raised |-> FALSE, user |-> NoUser ]
        ELSE IF ~payload.valid THEN [ raised |-> FALSE, user |-> NoUser ]
        ELSE IF ~payload.hasSub THEN [ raised |-> FALSE, user |-> NoUser ]
        ELSE IF ~IsDigits(payload.sub) THEN [ raised |-> TRUE, user |-> NoUser ]
        ELSE IF found = {} THEN [ raised |-> FALSE, user |-> NoUser ]
        ELSE LET user == CHOOSE u \in found : TRUE
             IN  IF user.status # ACTIVE
                 THEN [ raised |-> FALSE, user |-> NoUser ]
                 ELSE [ raised |-> FALSE, user |-> user ]

\* get_current_user (app/core/dependencies.py): the required form of the
\* resolution; it answers 401 where the optional form returns None
get_current_user(credentials, us, t) == get_current_user_optional(credentials, us, t)

\* a permission check that lets every role through
CanManageUsersAnyRole(role) == role \in UserRole

\* current_user.role in [UserRole.ADMIN, UserRole.SUB_ADMIN, UserRole.HR]
CanManageUsers(role) == role \in {ADMIN, SUB_ADMIN, HR}

\* x if x and x > 0 else None
Normalize(x) == IF x # NoId /\ x # 0 /\ x > 0 THEN x ELSE NoId

---------------------------------------------------------------------------
(* Request tasks *)

NoData ==
    [ email |-> 0, password |-> <<>>, role |-> "none", status |-> "none",
      manager_id |-> NoId, department_id |-> NoId, office_id |-> NoId ]

NoQuery == [ role |-> "", status |-> "", skip |-> 0, limit |-> 0 ]

Idle ==
    [ op |-> "none", pc |-> "idle", cred |-> NoCred, nonEmptyAtStart |-> FALSE,
      current_user |-> NoUser, user_data |-> NoData, query |-> NoQuery,
      department_data |-> "", user_count |-> NoId, code |-> 0, detail |-> "",
      new_id |-> NoId, token |-> NoCred, total |-> NoId, listing |-> <<>> ]

\* raise HTTPException(status_code, detail), or an exception nothing catches
\* (FastAPI answers 500)
Respond(req, code, detail) == [ req EXCEPT !.pc = "done", !.code = code, !.detail = detail ]

\* nothing issued, nothing verified yet
NoIssue == [ called |-> FALSE, expires_delta |-> NoDelta, at |-> 0, token |-> NoCred ]

NoVerdict == [ called |-> FALSE, at |-> 0, token |-> NoCred, payload |-> NoPayload ]

\* a stored digest that bcrypt cannot parse
MalformedDigest == [ wellformed |-> FALSE, rounds |-> 0, salt |-> 0, key |-> <<>> ]

\* nothing hashed, nothing verified yet; the verification recorded is one
\* against the digest recorded
NoHash ==
    [ hashed |-> FALSE, password |-> <<>>, digest |-> MalformedDigest,
      verified |-> FALSE, plain_password |-> <<>>, result |-> FALSE ]

Init ==
    /\ users = <<>>
    /\ nextUserId = 1
    /\ departments = [ i \in 1..Len(STATIC_DEPARTMENTS) |->
                         [ id |-> i, department_name |-> STATIC_DEPARTMENTS[i] ] ]
    /\ offices = [ i \in 1..Len(STATIC_OFFICES) |->
                     [ id |-> i, office_name |-> STATIC_OFFICES[i] ] ]
    /\ now = 0
    /\ ticks = 0
    /\ reqs = [ r \in Procs |-> Idle ]
    /\ issued = NoIssue
    /\ verdict = NoVerdict
    /\ hasher = NoHash

---------------------------------------------------------------------------
(* POST /users/createUser: app/api/users.py, create_user *)

\* the stretch of create_user from the e-mail check to the commit: which
\* store access comes next once the checks before `stage` have passed
AfterStage(req, stage) ==
    LET d == req.user_data
    IN  IF stage < 1 /\ Normalize(d.manager_id) # NoId THEN [ req EXCEPT !.pc = "manager" ]
        ELSE IF stage < 2 /\ Normalize(d.department_id) # NoId
             THEN [ req EXCEPT !.pc = "department" ]
        ELSE IF stage < 3 /\ Normalize(d.office_id) # NoId
             THEN [ req EXCEPT !.pc = "office" ]
        ELSE IF d.role \notin UserRole
             THEN Respond(req, 400, "Invalid role")
        ELSE IF d.status \notin UserStatus
             THEN Respond(req, 400, "Invalid status")
        ELSE [ req EXCEPT !.pc = "commit" ]

\* the request arrives; the dependency get_current_user_optional runs first
StartCreate(r, data, credentials) ==
    /\ reqs[r].pc = "idle"
    /\ LET res == get_current_user_optional(credentials, users, now)
           req == [ Idle EXCEPT !.op = "createUser", !.cred = credentials,
                                !.nonEmptyAtStart = (Len(users) > 0),
                                !.user_data = data, !.current_user = res.user ]
       IN  reqs' = [ reqs EXCEPT ![r] =
                       IF res.raised
                       THEN Respond(req, 500, "Internal Server Error")
                       ELSE [ req EXCEPT !.pc = "count" ] ]
    /\ UNCHANGED <<store, clock, tokens, hasher>>

\* Gate with the role of the first account left unchecked
GateAnyFirstUser(user_count, role, current_user) ==
    IF user_count = 0 THEN 0
    ELSE IF current_user.id = NoId THEN 401
    ELSE IF ~CanManageUsers(current_user.role) THEN 403
    ELSE 0

\* the branch on user_count: 0 to go on, or the status code of the refusal
Gate(user_count, role, current_user) ==
    IF user_count = 0
    THEN IF role # ADMIN THEN 400 ELSE 0
    ELSE IF current_user.id = NoId THEN 401
    ELSE IF ~CanManageUsers(current_user.role) THEN 403
    ELSE 0

GateDetail(code) ==
    IF code = 400 THEN "First user must be an admin"
    ELSE IF code = 401 THEN "Not authenticated"
    ELSE "You don't have permission to create users"

\* select count(users.id), then the bootstrap rule or the permission check
CountStep(r) ==
    /\ reqs[r].pc = "count"
    /\ LET req  == [ reqs[r] EXCEPT !.user_count = Len(users) ]
           code == Gate(req.user_count, req.user_data.role, req.current_user)
       IN  reqs' = [ reqs EXCEPT ![r] =
                       IF code # 0 THEN Respond(req, code, GateDetail(code))
                       ELSE [ req EXCEPT !.pc = "email" ] ]
    /\ UNCHANGED <<store, clock, tokens, hasher>>

\* select the user with this e-mail
EmailStep(r) ==
    /\ reqs[r].pc = "email"
    /\ reqs' = [ reqs EXCEPT ![r] =
                   IF UserByEmail(users, reqs[r].user_data.email) # {}
                   THEN Respond(reqs[r], 400, "Email already registered")
                   ELSE AfterStage(reqs[r], 0) ]
    /\ UNCHANGED <<store, clock, tokens, hasher>>

\* create_user without the validation of manager_id
ManagerStepUnchecked(r) ==
    /\ reqs[r].pc = "manager"
    /\ reqs' = [ reqs EXCEPT ![r] = AfterStage(reqs[r], 1) ]
    /\ UNCHANGED <<store, clock, tokens, hasher>>

\* select the manager by id
ManagerStep(r) ==
    /\ reqs[r].pc = "manager"
    /\ reqs' = [ reqs EXCEPT ![r] =
                   IF UserById(users, Normalize(reqs[r].user_data.manager_id)) = {}
                   THEN Respond(reqs[r], 400, "Manager not found")
                   ELSE AfterStage(reqs[r], 1) ]
    /\ UNCHANGED <<store, clock, tokens, hasher>>

\* create_user without the validation of department_id
DepartmentStepUnchecked(r) ==
    /\ reqs[r].pc = "department"
    /\ reqs' = [ reqs EXCEPT ![r] = AfterStage(reqs[r], 2) ]
    /\ UNCHANGED <<store, clock, tokens, hasher>>

\* select the department by id
DepartmentStep(r) ==
    /\ reqs[r].pc = "department"
    /\ reqs' = [ reqs EXCEPT ![r] =
                   IF \A i \in 1..Len(departments) :
                          departments[i].id # Normalize(reqs[r].user_data.department_id)
                   THEN Respond(reqs[r], 400, "Department not found")
                   ELSE AfterStage(reqs[r], 2) ]
    /\ UNCHANGED <<store, clock, tokens, hasher>>

\* select the office by id
OfficeStep(r) ==
    /\ reqs[r].pc = "office"
    /\ reqs' = [ reqs EXCEPT ![r] =
                   IF \A i \in 1..Len(offices) :
                          offices[i].id # Normalize(reqs[r].user_data.office_id)
                   THEN Respond(reqs[r], 400, "Office not found")
                   ELSE AfterStage(reqs[r], 3) ]
    /\ UNCHANGED <<store, clock, tokens, hasher>>

\* NewUser without role=user_role: the column default applies
NewUserDefaultRole(data, id, salt) ==
    [ id |-> id, email |-> data.email,
      password_hash |-> get_password_hash(data.password, salt),
      role |-> EMPLOYEE, status |-> data.status,
      department_id |-> Normalize(data.department_id),
      office_id |-> Normalize(data.office_id),
      manager_id |-> Normalize(data.manager_id) ]

\* User(...) as create_user builds it, with the id the sequence hands out
NewUser(data, id, salt) ==
    [ id |-> id, email |-> data.email,
      password_hash |-> get_password_hash(data.password, salt),
      role |-> data.role, status |-> data.status,
      department_id |-> Normalize(data.department_id),
      office_id |-> Normalize(data.office_id),
      manager_id |-> Normalize(data.manager_id) ]

\* a users table whose e-mail column is not declared unique
InsertAllowedAlways(us, row) == TRUE

\* the constraints of table "users" (app/models/user.py): unique e-mail
InsertAllowed(us, row) == UserByEmail(us, row.email) = {}

\* session.add(new_user); commit; refresh: the INSERT takes the next id of the
\* sequence whether or not the row is accepted; a rejected row raises
\* IntegrityError, which nothing catches
CommitStep(r, salt) ==
    /\ reqs[r].pc = "commit"
    /\ LET new_user == NewUser(reqs[r].user_data, nextUserId, salt)
       IN  IF InsertAllowed(users, new_user)
           THEN /\ users' = Append(users, new_user)
                /\ reqs' = [ reqs EXCEPT ![r] =
                               [ Respond(reqs[r], 201, "Created") EXCEPT
                                   !.new_id = new_user.id ] ]
           ELSE /\ users' = users
                /\ reqs' = [ reqs EXCEPT ![r] =
                               Respond(reqs[r], 500, "Internal Server Error") ]
    /\ nextUserId' = nextUserId + 1
    /\ UNCHANGED <<departments, offices, clock, tokens, hasher>>

\* the response has been sent; the slot serves the next request
Return(r) ==
    /\ reqs[r].pc = "done"
    /\ reqs' = [ reqs EXCEPT ![r] = Idle ]
    /\ UNCHANGED <<store, clock, tokens, hasher>>

---------------------------------------------------------------------------
(* POST /auth/login: app/api/auth.py, login *)

\* login that verifies the password before it looks at the status
LoginPasswordFirst(us, email, password, t) ==
    LET found == UserByEmail(us, email)
    IN  IF found = {}
        THEN [ code |-> 401, detail |-> "Incorrect email or password", token |-> NoCred ]
        ELSE LET user == CHOOSE u \in found : TRUE
             IN  IF ~verify_password(password, user.password_hash)
                 THEN [ code |-> 401, detail |-> "Incorrect email or password",
                        token |-> NoCred ]
                 ELSE IF user.status # ACTIVE
                 THEN [ code |-> 403, detail |-> "User account is inactive",
                        token |-> NoCred ]
                 ELSE [ code |-> 200, detail |-> "OK",
                        token |-> create_access_token(
                                      [ hasSub |-> TRUE, sub |-> Str(user.id),
                                        email |-> user.email, role |-> user.role ],
                                      Minutes(ACCESS_TOKEN_EXPIRE_MINUTES), t) ]

\* login that tells an unknown e-mail from a wrong password
LoginNamesUnknown(us, email, password, t) ==
    LET found == UserByEmail(us, email)
    IN  IF found = {}
        THEN [ code |-> 404, detail |-> "User not found", token |-> NoCred ]
        ELSE LET user == CHOOSE u \in found : TRUE
             IN  IF user.status # ACTIVE
                 THEN [ code |-> 403, detail |-> "User account is inactive",
                        token |-> NoCred ]
                 ELSE IF ~verify_password(password, user.password_hash)
                 THEN [ code |-> 401, detail |-> "Incorrect email or password",
                        token |-> NoCred ]
                 ELSE [ code |-> 200, detail |-> "OK",
                        token |-> create_access_token(
                                      [ hasSub |-> TRUE, sub |-> Str(user.id),
                                        email |-> user.email, role |-> user.role ],
                                      Minutes(ACCESS_TOKEN_EXPIRE_MINUTES), t) ]

\* what login answers for these credentials against this directory
LoginOutcome(us, email, password, t) ==
    LET found == UserByEmail(us, email)
    IN  IF found = {}
        THEN [ code |-> 401, detail |-> "Incorrect email or password", token |-> NoCred ]
        ELSE LET user == CHOOSE u \in found : TRUE
             IN  IF user.status # ACTIVE
                 THEN [ code |-> 403, detail |-> "User account is inactive",
                        token |-> NoCred ]
                 ELSE IF ~verify_password(password, user.password_hash)
                 THEN [ code |-> 401, detail |-> "Incorrect email or password",
                        token |-> NoCred ]
                 ELSE [ code |-> 200, detail |-> "OK",
                        token |-> create_access_token(
                                      [ hasSub |-> TRUE, sub |-> Str(user.id),
                                        email |-> user.email, role |-> user.role ],
                                      Minutes(ACCESS_TOKEN_EXPIRE_MINUTES), t) ]

\* login that stores an upgraded digest after a successful verification
LoginRehashing(r, email, password) ==
    /\ reqs[r].pc = "idle"
    /\ LET out == LoginOutcome(users, email, password, now)
           req == [ Idle EXCEPT !.op = "login", !.nonEmptyAtStart = (Len(users) > 0),
                                !.user_data.email = email,
                                !.user_data.password = password,
                                !.token = out.token ]
       IN  /\ reqs' = [ reqs EXCEPT ![r] = Respond(req, out.code, out.detail) ]
           /\ users' = [ i \in 1..Len(users) |->
                           IF users[i].email = email /\ out.code = 200
                           THEN [ users[i] EXCEPT !.password_hash.rounds = BcryptRounds + 1 ]
                           ELSE users[i] ]
    /\ UNCHANGED <<nextUserId, departments, offices, clock, tokens, hasher>>

\* the whole handler: one select, then the checks and the token
Login(r, email, password) ==
    /\ reqs[r].pc = "idle"
    /\ LET out == LoginOutcome(users, email, password, now)
           req == [ Idle EXCEPT !.op = "login", !.nonEmptyAtStart = (Len(users) > 0),
                                !.user_data.email = email,
                                !.user_data.password = password,
                                !.token = out.token ]
       IN  reqs' = [ reqs EXCEPT ![r] = Respond(req, out.code, out.detail) ]
    /\ UNCHANGED <<store, clock, tokens, hasher>>

---------------------------------------------------------------------------
(* GET /users/getUsers: app/api/users.py, get_users *)

\* current_user.role in [UserRole.ADMIN, UserRole.SUB_ADMIN, UserRole.HR]
CanViewUsers(role) == role \in {ADMIN, SUB_ADMIN, HR}

\* the where clauses of base_query and count_query ("" is no filter)
Matches(u, q) ==
    /\ q.role = "" \/ u.role = q.role
    /\ q.status = "" \/ u.status = q.status

RECURSIVE Filtered(_, _)
Filtered(us, q) ==
    IF us = <<>> THEN <<>>
    ELSE IF Matches(Head(us), q) THEN << Head(us) >> \o Filtered(Tail(us), q)
    ELSE Filtered(Tail(us), q)

\* base_query.offset(skip).limit(limit)
Page(rows, skip, limit) == SubSeq(rows, skip + 1, Min(Len(rows), skip + limit))

\* the request arrives: get_current_user, then the permission check and the
\* validation of the filters
StartList(r, credentials, q) ==
    /\ reqs[r].pc = "idle"
    /\ LET res == get_current_user(credentials, users, now)
           req == [ Idle EXCEPT !.op = "getUsers", !.cred = credentials,
                                !.nonEmptyAtStart = (Len(users) > 0),
                                !.query = q, !.current_user = res.user ]
       IN  reqs' = [ reqs EXCEPT ![r] =
                       IF res.raised THEN Respond(req, 500, "Internal Server Error")
                       ELSE IF res.user.id = NoId
                       THEN Respond(req, 401, "Could not validate credentials")
                       ELSE IF ~CanViewUsers(res.user.role)
                       THEN Respond(req, 403, "You don't have permission to view users")
                       ELSE IF q.role # "" /\ q.role \notin UserRole
                       THEN Respond(req, 400, "Invalid role")
                       ELSE IF q.status # "" /\ q.status \notin UserStatus
                       THEN Respond(req, 400, "Invalid status")
                       ELSE [ req EXCEPT !.pc = "list_count" ] ]
    /\ UNCHANGED <<store, clock, tokens, hasher>>

\* select count(users.id) with the filters
ListCountStep(r) ==
    /\ reqs[r].pc = "list_count"
    /\ reqs' = [ reqs EXCEPT ![r].total = Len(Filtered(users, reqs[r].query)),
                             ![r].pc = "list" ]
    /\ UNCHANGED <<store, clock, tokens, hasher>>

\* select the page of users
ListStep(r) ==
    /\ reqs[r].pc = "list"
    /\ LET page == Page(Filtered(users, reqs[r].query),
                        reqs[r].query.skip, reqs[r].query.limit)
       IN  reqs' = [ reqs EXCEPT ![r] =
                       [ Respond(reqs[r], 200, "OK") EXCEPT
                           !.listing = [ i \in 1..Len(page) |-> page[i].id ] ] ]
    /\ UNCHANGED <<store, clock, tokens, hasher>>

---------------------------------------------------------------------------
(* POST /departments/createDepartment: app/api/departments.py *)

\* how many departments requests may add to the seeded ones
MaxNewDepartments == 3

\* the rows select(Department).where(department_name == name) returns
DepartmentsByName(ds, name) == { i \in 1..Len(ds) : ds[i].department_name = name }

\* the request arrives and the handler selects the department with this
\* name; scalar_one_or_none raises MultipleResultsFound, which nothing
\* catches, when the name matches more than one row
StartDepartment(r, name) ==
    /\ reqs[r].pc = "idle"
    /\ LET hits == DepartmentsByName(departments, name)
           req  == [ Idle EXCEPT !.op = "createDepartment", !.department_data = name ]
       IN  reqs' = [ reqs EXCEPT ![r] =
                       IF Cardinality(hits) > 1
                       THEN Respond(req, 500, "Internal Server Error")
                       ELSE IF hits # {}
                       THEN Respond(req, 400, "Department already exists")
                       ELSE [ req EXCEPT !.pc = "department_commit" ] ]
    /\ UNCHANGED <<store, clock, tokens, hasher>>

\* session.add(new_department); commit; refresh: table "departments"
\* (app/models/department.py) has no constraint but its primary key, which
\* the sequence fills, so the store accepts every row
DepartmentCommitStep(r) ==
    /\ reqs[r].pc = "department_commit"
    /\ Len(departments) < Len(STATIC_DEPARTMENTS) + MaxNewDepartments
    /\ LET new_department == [ id |-> Len(departments) + 1,
                               department_name |-> reqs[r].department_data ]
       IN  /\ departments' = Append(departments, new_department)
           /\ reqs' = [ reqs EXCEPT ![r] =
                          [ Respond(reqs[r], 201, "Created") EXCEPT
                              !.new_id = new_department.id ] ]
    /\ UNCHANGED <<users, nextUserId, offices, clock, tokens, hasher>>

---------------------------------------------------------------------------
(* The clock *)

TickSteps == { 1, Minutes(ACCESS_TOKEN_EXPIRE_MINUTES) }

Tick(d, limit) ==
    /\ ticks < limit
    /\ now' = now + d
    /\ ticks' = ticks + 1
    /\ UNCHANGED <<store, reqs, tokens, hasher>>

---------------------------------------------------------------------------
(* Inputs *)

\* passwords callers type: six characters at least for createUser
Pw1 == << 112, 119, 49, 50, 51, 52 >>
Pw2 == << 112, 119, 49, 50, 51, 233 >>

\* passwords callers try at login: the right one and a wrong one
LoginPasswords == { Pw1, Pw2 }

\* salts bcrypt.gensalt can draw
Salts == 1..NumSalts

\* the token login would hand out for account u, issued at instant t
TokenOf(u, t) ==
    create_access_token([ hasSub |-> TRUE, sub |-> Str(u.id), email |-> u.email,
                          role |-> u.role ],
                        Minutes(ACCESS_TOKEN_EXPIRE_MINUTES), t)

\* a token with the claims of TokenOf(u, 0) that somebody else signed
Forged(tok, key, alg) == [ tok EXCEPT !.key = key, !.alg = alg ]

\* the token login would have handed to the first administrator
SomeToken == TokenOf([ id |-> 1, email |-> 1, role |-> ADMIN ], 0)

\* what a caller may send as Authorization header: nothing, garbage, the
\* token of an account of the directory, and SomeToken as it is, long
\* expired, for an id the directory does not hold, signed with another key
\* or algorithm, with no subject and with a subject that is not a number
Credentials(us) ==
    {NoCred, Malformed, SomeToken}
      \cup { TokenOf(u, 0) : u \in Range(us) }
      \cup { [ SomeToken EXCEPT !.exp = 0 ],
             [ SomeToken EXCEPT !.sub = Str(nextUserId) ],
             Forged(SomeToken, "another-key", ALGORITHM),
             Forged(SomeToken, SECRET_KEY, "HS512"),
             [ SomeToken EXCEPT !.hasSub = FALSE ],
             [ SomeToken EXCEPT !.sub = << 10 >> ] }

\* request bodies that pass the schema UserCreate
Payloads(roles, statuses, managers, depts, offs) ==
    [ email : Emails, password : {Pw1}, role : roles, status : statuses,
      manager_id : managers, department_id : depts, office_id : offs ]

---------------------------------------------------------------------------
(* Specifications *)

\* Interleaved createUser requests: MaxReq tasks, each suspended at its
\* store accesses, callers with and without the token of the first account
RacePayloads == Payloads({ADMIN, EMPLOYEE}, {ACTIVE}, {NoId}, {0}, {NoId})

RaceCredentials(us) == { NoCred } \cup { TokenOf(u, 0) : u \in Range(us) }

Next ==
    \E r \in Procs :
        \/ \E data \in RacePayloads, c \in RaceCredentials(users) : StartCreate(r, data, c)
        \/ CountStep(r)
        \/ EmailStep(r)
        \/ \E salt \in Salts : CommitStep(r, salt)
        \/ Return(r)

Spec == Init /\ [][Next]_vars

\* Requests handled one after another: one task, every kind of request,
\* every kind of credentials, and the clock
SeqPayloads == Payloads(UserRole, UserStatus, {0}, {NoId}, {0})

Queries ==
    [ role : {"", "manager"}, status : {""}, skip : {0}, limit : {100} ]
      \cup [ role : {ADMIN}, status : {"", INACTIVE}, skip : {0, 1}, limit : {1} ]

NextSeq ==
    \/ \E data \in SeqPayloads, c \in Credentials(users) : StartCreate(1, data, c)
    \/ CountStep(1)
    \/ EmailStep(1)
    \/ \E salt \in Salts : CommitStep(1, salt)
    \/ \E e \in Emails, p \in LoginPasswords : Login(1, e, p)
    \/ \E c \in Credentials(users), q \in Queries : StartList(1, c, q)
    \/ ListCountStep(1)
    \/ ListStep(1)
    \/ Return(1)
    \/ \E d \in TickSteps : Tick(d, MaxTicks)

SpecSeq == Init /\ [][NextSeq]_vars

\* The token service on its own: tokens are issued with every kind of
\* time-to-live, the clock runs, and tokens are presented for verification
MaxClockTicks == 4

Deltas == { NoDelta, 0, 1, TicksPerSecond, Minutes(ACCESS_TOKEN_EXPIRE_MINUTES) }

SomeClaims == [ hasSub |-> TRUE, sub |-> Str(1), email |-> 1, role |-> ADMIN ]

Issue(expires_delta) ==
    /\ issued' = [ called |-> TRUE, expires_delta |-> expires_delta, at |-> now,
                   token |-> create_access_token(SomeClaims, expires_delta, now) ]
    /\ UNCHANGED <<store, clock, reqs, verdict, hasher>>

\* what can be presented: the token issued, the same claims signed with
\* another key or algorithm, and a string that is no token
Presentable ==
    { issued.token, Forged(issued.token, "another-key", ALGORITHM),
      Forged(issued.token, SECRET_KEY, "HS512"), Malformed }

Verify(token) ==
    /\ issued.called
    /\ verdict' = [ called |-> TRUE, at |-> now, token |-> token,
                    payload |-> decode_access_token(token, now) ]
    /\ UNCHANGED <<store, clock, reqs, issued, hasher>>

NextTok ==
    \/ \E dl \in Deltas : Issue(dl)
    \/ \E token \in Presentable : Verify(token)
    \/ \E d \in TickSteps : Tick(d, MaxClockTicks)

SpecTok == Init /\ [][NextTok]_vars

\* Interleaved createDepartment requests after startup seeding: names that
\* are seeded and names that are new
DepartmentNames == { "Factory", "Research", "Legal" }

NextDept ==
    \E r \in Procs :
        \/ \E name \in DepartmentNames : StartDepartment(r, name)
        \/ DepartmentCommitStep(r)
        \/ Return(r)

SpecDept == Init /\ [][NextDept]_vars

\* createUser requests that carry references, handled one after another:
\* for the manager, the department and the office each, none given, zero,
\* the id of a row that can exist and an id that no row has; callers with
\* no token, with a string that is no token, with the token of an account
\* and with signed tokens whose subject names no account or is no number
ManagerIds == { 0, 1, 2 }

DepartmentIds == { NoId, Len(STATIC_DEPARTMENTS), Len(STATIC_DEPARTMENTS) + 1 }

OfficeIds == { 0, Len(STATIC_OFFICES), Len(STATIC_OFFICES) + 1 }

RefPayloads == Payloads({ADMIN, EMPLOYEE}, {ACTIVE}, ManagerIds, DepartmentIds, OfficeIds)

RefCredentials(us) ==
    { NoCred, Malformed,
      [ SomeToken EXCEPT !.sub = Str(nextUserId) ],
      [ SomeToken EXCEPT !.sub = << 10 >> ] }
      \cup { TokenOf(u, 0) : u \in Range(us) }

NextRefs ==
    \/ \E data \in RefPayloads, c \in RefCredentials(users) : StartCreate(1, data, c)
    \/ CountStep(1)
    \/ EmailStep(1)
    \/ ManagerStep(1)
    \/ DepartmentStep(1)
    \/ OfficeStep(1)
    \/ \E salt \in Salts : CommitStep(1, salt)
    \/ Return(1)

SpecRefs == Init /\ [][NextRefs]_vars

\* Interleaved createUser requests that name a manager
ManagerPayloads == Payloads({ADMIN}, {ACTIVE}, ManagerIds, {NoId}, {NoId})

NextManagers ==
    \E r \in Procs :
        \/ \E data \in ManagerPayloads, c \in RaceCredentials(users) :
               StartCreate(r, data, c)
        \/ CountStep(r)
        \/ EmailStep(r)
        \/ ManagerStep(r)
        \/ \E salt \in Salts : CommitStep(r, salt)
        \/ Return(r)

SpecManagers == Init /\ [][NextManagers]_vars

\* The credential hasher on its own: passwords are hashed with every salt,
\* a stored digest can be one bcrypt cannot parse, and passwords are
\* verified against the digest stored last
NumHashSalts == 3

\* the longest run of one character in the passwords tried: one byte less
\* than bcrypt reads
PadLen == BcryptMaxBytes - 1

Rep(c, n) == [ i \in 1..n |-> c ]

\* passwords of 6, 71, 72, 73 and 74 bytes: some share their first 72 bytes
\* and differ after them, some differ within them, and in some a two-byte
\* character lies across the 72nd byte
HashPasswords ==
    { Pw1, Pw2,
      Rep(97, PadLen),
      Rep(97, PadLen) \o << 98 >>,
      Rep(97, PadLen) \o << 98, 99 >>,
      Rep(97, PadLen) \o << 98, 100, 101 >>,
      Rep(97, PadLen) \o << 99 >>,
      Rep(97, PadLen) \o << 233 >>,
      Rep(97, PadLen) \o << 234 >>,
      Rep(97, PadLen - 1) \o << 233 >>,
      Rep(97, PadLen - 1) \o << 233, 120 >> }

HashSalts == 1..NumHashSalts

Hash(password, salt) ==
    /\ hasher' = [ NoHash EXCEPT !.hashed = TRUE, !.password = password,
                                 !.digest = get_password_hash(password, salt) ]
    /\ UNCHANGED <<store, clock, reqs, tokens>>

\* the stored digest is replaced by a string that is no bcrypt digest
Corrupt ==
    /\ hasher.hashed
    /\ hasher.digest.wellformed
    /\ hasher' = [ NoHash EXCEPT !.hashed = TRUE, !.password = hasher.password,
                                 !.digest = MalformedDigest ]
    /\ UNCHANGED <<store, clock, reqs, tokens>>

VerifyPassword(plain_password) ==
    /\ hasher.hashed
    /\ hasher' = [ hasher EXCEPT !.verified = TRUE, !.plain_password = plain_password,
                                 !.result = verify_password(plain_password, hasher.digest) ]
    /\ UNCHANGED <<store, clock, reqs, tokens>>

NextHash ==
    \/ \E password \in HashPasswords, salt \in HashSalts : Hash(password, salt)
    \/ Corrupt
    \/ \E plain_password \in HashPasswords : VerifyPassword(plain_password)

SpecHash == Init /\ [][NextHash]_vars

---------------------------------------------------------------------------
(* Properties *)

NoReferences(d) ==
    /\ Normalize(d.manager_id) = NoId
    /\ Normalize(d.department_id) = NoId
    /\ Normalize(d.office_id) = NoId

\* C1: requests handled one after another.  A createUser request that
\* presents no token, or one the token service rejects, is resolved to no
\* caller.  At the branch on the number of accounts: with zero accounts a
\* role other than admin is answered 400 and nothing is stored, and role
\* admin goes on whoever the caller is; with one account or more a request
\* with no caller is answered 401 and nothing is stored.  The request that
\* went on with zero accounts ends 201 with its admin account as the only row.
C1_Step ==
    \A r \in Procs :
        /\ ( /\ reqs[r].pc = "idle"
             /\ reqs'[r].op = "createUser"
             /\ ~decode_access_token(reqs'[r].cred, now).valid )
           => ( reqs'[r].pc = "count" /\ reqs'[r].current_user = NoUser )
        /\ ( reqs[r].pc = "count" /\ reqs'[r].pc # "count" )
           => LET q == reqs'[r]
              IN  /\ ( Len(users) = 0 /\ q.user_data.role # ADMIN )
                     => ( q.pc = "done" /\ q.code = 400 /\ users' = users )
                  /\ ( Len(users) = 0 /\ q.user_data.role = ADMIN )
                     => ( q.pc = "email" /\ users' = users )
                  /\ ( Len(users) > 0 /\ q.current_user = NoUser )
                     => ( q.pc = "done" /\ q.code = 401 /\ users' = users )
        /\ ( /\ reqs[r].op = "createUser"
             /\ reqs[r].pc \in {"email", "commit"}
             /\ reqs[r].user_count = 0
             /\ NoReferences(reqs[r].user_data)
             /\ reqs'[r].pc # reqs[r].pc )
           => \/ reqs'[r].pc = "commit" /\ users' = users
              \/ /\ reqs'[r].pc = "done"
                 /\ reqs'[r].code = 201
                 /\ Len(users') = 1
                 /\ users'[1].role = ADMIN
                 /\ users'[1].email = reqs[r].user_data.email

C1_Bootstrap == [][C1_Step]_vars

\* the first administrator exists, created without a token, and the next
\* request without a token has been answered 401
C1_Witness ==
    \E r \in Procs :
        /\ reqs[r].op = "createUser"
        /\ reqs[r].pc = "done"
        /\ reqs[r].code = 401
        /\ reqs[r].cred = NoCred
        /\ Len(users) = 1
        /\ users[1].role = ADMIN

\* C2: whenever the directory holds an account, it holds one that can
\* authenticate and may create accounts: status active and role hr,
\* sub_admin or admin.
C2_Manageable ==
    Len(users) > 0
      => \E i \in 1..Len(users) :
             users[i].status = ACTIVE /\ CanManageUsers(users[i].role)

\* a finished createUser request that carried no token, read a count of
\* zero and asked for an admin account without references
Unguarded(r) ==
    /\ reqs[r].op = "createUser"
    /\ reqs[r].pc = "done"
    /\ reqs[r].cred = NoCred
    /\ reqs[r].user_count = 0
    /\ reqs[r].user_data.role = ADMIN
    /\ NoReferences(reqs[r].user_data)

\* C3: nothing between the count and the insert looks at the directory's
\* size again.  Every request that read a count of zero without a token is
\* answered 201 and its admin account is stored, however many accounts the
\* directory holds by then, unless another account took its e-mail first.
C3_RacePersists ==
    \A r \in Procs :
        Unguarded(r)
          => \/ /\ reqs[r].code = 201
                /\ \E i \in 1..Len(users) :
                       /\ users[i].id = reqs[r].new_id
                       /\ users[i].email = reqs[r].user_data.email
                       /\ users[i].role = ADMIN
             \/ /\ reqs[r].code \in {400, 500}
                /\ reqs[r].detail \in {"Email already registered", "Internal Server Error"}
                /\ \E i \in 1..Len(users) :
                       users[i].email = reqs[r].user_data.email

\* two requests with distinct e-mails both read zero and both accounts are
\* stored, neither with credentials
C3_Witness ==
    \E r1, r2 \in Procs :
        /\ r1 # r2
        /\ Unguarded(r1) /\ Unguarded(r2)
        /\ reqs[r1].code = 201 /\ reqs[r2].code = 201
        /\ reqs[r1].user_data.email # reqs[r2].user_data.email
        /\ Len(users) = 2
        /\ users[1].role = ADMIN /\ users[2].role = ADMIN

\* C10: no two stored accounts have the same e-mail.
C10_EmailUnique ==
    \A i, j \in 1..Len(users) : i # j => users[i].email # users[j].email

\* a request passed the e-mail lookup and its insert was then rejected by
\* the store: another request had committed the same e-mail in between
C10_Witness ==
    \E r \in Procs :
        /\ reqs[r].op = "createUser"
        /\ reqs[r].pc = "done"
        /\ reqs[r].code = 500
        /\ \E i \in 1..Len(users) : users[i].email = reqs[r].user_data.email

\* the stored account with this e-mail, as a set of at most one row
Account(e) == UserByEmail(users, e)

IsInactive(e) == \E u \in Account(e) : u.status = INACTIVE

IsActive(e) == \E u \in Account(e) : u.status = ACTIVE

WrongPassword(e, p) == \E u \in Account(e) : ~verify_password(p, u.password_hash)

\* the directory without the account that holds e-mail e
RECURSIVE Without(_, _)
Without(us, e) ==
    IF us = <<>> THEN <<>>
    ELSE IF Head(us).email = e THEN Without(Tail(us), e)
    ELSE << Head(us) >> \o Without(Tail(us), e)

FinishedLogin(r) == reqs[r].op = "login" /\ reqs[r].pc = "done"

\* C4: a login whose e-mail matches an inactive account is answered 403
\* "User account is inactive" and carries no token, with the right password
\* and with a wrong one; a token login hands out names an active account.
C4_InactiveNeverLogsIn ==
    /\ \A e \in Emails, p \in LoginPasswords :
           IsInactive(e)
             => LET out == LoginOutcome(users, e, p, now)
                IN  /\ out.code = 403
                    /\ out.detail = "User account is inactive"
                    /\ out.token = NoCred
    /\ \A r \in Procs :
           FinishedLogin(r)
             => /\ IsInactive(reqs[r].user_data.email)
                     => /\ reqs[r].code = 403
                        /\ reqs[r].detail = "User account is inactive"
                        /\ reqs[r].token = NoCred
                /\ reqs[r].token # NoCred
                     => \E i \in 1..Len(users) :
                            /\ Str(users[i].id) = reqs[r].token.sub
                            /\ users[i].email = reqs[r].user_data.email
                            /\ users[i].status = ACTIVE

\* a login with the right password for an inactive account was answered 403
C4_Witness ==
    \E r \in Procs :
        /\ FinishedLogin(r)
        /\ IsInactive(reqs[r].user_data.email)
        /\ ~WrongPassword(reqs[r].user_data.email, reqs[r].user_data.password)
        /\ reqs[r].code = 403

\* C5 as stated: for a registered e-mail and a wrong password login answers
\* exactly what it answers in the directory without that account.
C5_NoEnumeration ==
    \A e \in Emails, p \in LoginPasswords :
        ( Account(e) # {} /\ WrongPassword(e, p) )
          => LoginOutcome(users, e, p, now) = LoginOutcome(Without(users, e), e, p, now)

\* C5 as amended: for the e-mail of an active account and a wrong password
\* login answers exactly what it answers in the directory without that
\* account, 401 "Incorrect email or password" with no token; and every
\* finished login for an unknown e-mail, or for an active account with a
\* wrong password, carries that answer.
C5_NoEnumerationOfActive ==
    /\ \A e \in Emails, p \in LoginPasswords :
           ( IsActive(e) /\ WrongPassword(e, p) )
             => /\ LoginOutcome(users, e, p, now)
                     = LoginOutcome(Without(users, e), e, p, now)
                /\ LoginOutcome(users, e, p, now).code = 401
    /\ \A r \in Procs :
           ( /\ FinishedLogin(r)
             /\ \/ Account(reqs[r].user_data.email) = {}
                \/ /\ IsActive(reqs[r].user_data.email)
                   /\ WrongPassword(reqs[r].user_data.email, reqs[r].user_data.password) )
             => /\ reqs[r].code = 401
                /\ reqs[r].detail = "Incorrect email or password"
                /\ reqs[r].token = NoCred

\* a login with a wrong password for an active account was answered 401
\* while another e-mail is not registered
C5_Witness ==
    \E r \in Procs :
        /\ FinishedLogin(r)
        /\ IsActive(reqs[r].user_data.email)
        /\ WrongPassword(reqs[r].user_data.email, reqs[r].user_data.password)
        /\ reqs[r].code = 401
        /\ \E e \in Emails : Account(e) = {}

\* C6: a createUser request that arrived at a non-empty directory reaches
\* its payload checks and its insert only with a resolved caller whose role
\* is hr, sub_admin or admin, and getUsers reaches its queries only for such
\* a caller; a caller resolved as employee gets 403 at the permission check,
\* before any further store access.
C6_Policy ==
    \A r \in Procs :
        LET q == reqs[r]
            allowed == q.current_user.id # NoId
                         /\ q.current_user.role \in {HR, SUB_ADMIN, ADMIN}
        IN  /\ ( /\ q.op = "createUser"
                 /\ q.nonEmptyAtStart
                 /\ \/ q.pc \in {"email", "manager", "department", "office", "commit"}
                    \/ q.pc = "done" /\ q.code = 201 )
               => allowed
            /\ ( q.op = "createUser" /\ q.current_user.role = EMPLOYEE )
               => \/ q.pc = "count"
                  \/ q.pc = "done" /\ q.code = 403 /\ q.new_id = NoId
            /\ ( /\ q.op = "getUsers"
                 /\ \/ q.pc \in {"list_count", "list"}
                    \/ q.pc = "done" /\ q.code = 200 )
               => allowed
            /\ ( q.op = "getUsers" /\ q.current_user.role = EMPLOYEE )
               => ( q.pc = "done" /\ q.code = 403 /\ q.total = NoId /\ q.listing = <<>> )

\* an employee's createUser has been refused with 403
C6_Witness ==
    \E r \in Procs :
        /\ reqs[r].op = "createUser"
        /\ reqs[r].pc = "done"
        /\ reqs[r].code = 403
        /\ reqs[r].current_user.role = EMPLOYEE
        /\ reqs[r].nonEmptyAtStart

\* the accounts a token's subject names: the active account with that id
Holders(payload) ==
    IF payload.valid /\ payload.hasSub /\ IsDigits(payload.sub)
    THEN { i \in 1..Len(users) :
             users[i].id = ParseInt(payload.sub) /\ users[i].status = ACTIVE }
    ELSE {}

\* C7: when a createUser request arrives, its token resolves to a caller
\* only if the token is correctly signed and unexpired and the directory
\* holds an active account with the subject's id; a correctly signed,
\* unexpired token whose account is absent or inactive leaves the request
\* where a request without token is: no caller, next the count.
C7_Step ==
    \A r \in Procs :
        ( reqs[r].pc = "idle" /\ reqs'[r].op = "createUser" )
          => LET payload == decode_access_token(reqs'[r].cred, now)
             IN  /\ reqs'[r].current_user.id # NoId
                      => /\ payload.valid
                         /\ \E i \in Holders(payload) : users[i] = reqs'[r].current_user
                 /\ ( payload.valid /\ Holders(payload) = {} )
                      => ( reqs'[r].pc = "count" /\ reqs'[r].current_user = NoUser )

C7_TokenNeverOutlivesAccount == [][C7_Step]_vars

\* C8: the expiry create_access_token embeds is the issue instant plus the
\* time-to-live passed, in whole seconds; with a time-to-live of zero it is
\* the issue instant and decode_access_token rejects the token at once.
C8_ExpiryIsIssuePlusTtl ==
    ( issued.called /\ issued.expires_delta # NoDelta )
      => /\ issued.token.exp = Timegm(issued.at + issued.expires_delta)
         /\ issued.expires_delta = 0
              => ~decode_access_token(issued.token, issued.at).valid

\* C9: decode_access_token returns the claims exactly when the token is a
\* JWT signed with SECRET_KEY and ALGORITHM whose expiry is not before the
\* present second, and None otherwise; the answer recorded for a token at
\* an instant is the answer for that token at that instant in every later
\* state, whatever was issued or verified in between.
C9_Verify ==
    verdict.called
      => LET tk == verdict.token
             ok == /\ tk.kind = "jwt"
                   /\ tk.key = SECRET_KEY
                   /\ tk.alg = ALGORITHM
                   /\ tk.exp >= Timegm(verdict.at)
         IN  /\ verdict.payload.valid <=> ok
             /\ ok => /\ verdict.payload.sub = tk.sub
                      /\ verdict.payload.email = tk.email
                      /\ verdict.payload.role = tk.role
                      /\ verdict.payload.exp = tk.exp
             /\ ~ok => verdict.payload = NoPayload
             /\ decode_access_token(tk, verdict.at) = verdict.payload

\* a token the service issued was accepted no longer once its expiry passed
C9_Witness ==
    /\ verdict.called
    /\ issued.called
    /\ verdict.token = issued.token
    /\ verdict.at > issued.at
    /\ decode_access_token(issued.token, issued.at).valid
    /\ ~verdict.payload.valid

\* a finished createUser request that passed the branch on the number of
\* accounts, carries no reference and no bad enumeration value, and was
\* refused all the same: the only check left to refuse it is the one on
\* its e-mail, at the lookup or at the insert
RefusedForEmail(r) ==
    /\ reqs[r].op = "createUser"
    /\ reqs[r].pc = "done"
    /\ reqs[r].user_count # NoId
    /\ Gate(reqs[r].user_count, reqs[r].user_data.role, reqs[r].current_user) = 0
    /\ NoReferences(reqs[r].user_data)
    /\ reqs[r].user_data.role \in UserRole
    /\ reqs[r].user_data.status \in UserStatus
    /\ reqs[r].code # 201

\* C11: every createUser request refused because a stored account holds its
\* e-mail is answered 400 "Email already registered", also when that account
\* was stored between the request's e-mail lookup and its commit.
C11_ConflictIs400 ==
    \A r \in Procs :
        RefusedForEmail(r)
          => /\ reqs[r].code = 400
             /\ reqs[r].detail = "Email already registered"


\* C12: no two stored departments have the same name, and a finished
\* createDepartment request whose name a stored department held when it
\* arrived was answered 400 and stored nothing.
C12_DepartmentNameUnique ==
    /\ \A i, j \in 1..Len(departments) :
           i # j => departments[i].department_name # departments[j].department_name
    /\ \A r \in Procs :
           ( /\ reqs[r].op = "createDepartment"
             /\ reqs[r].pc = "done"
             /\ reqs[r].code # 201 )
             => ( reqs[r].code = 400 /\ reqs[r].new_id = NoId )


\* a reference as it must be stored: none for none given and for zero
StoredAs(x) == IF x = NoId \/ x = 0 THEN NoId ELSE x

HasUser(id) == \E i \in 1..Len(users) : users[i].id = id

HasDepartment(id) == \E i \in 1..Len(departments) : departments[i].id = id

HasOffice(id) == \E i \in 1..Len(offices) : offices[i].id = id

\* the payload names, with a positive id, a row the store does not hold
NamesMissingRow(d) ==
    \/ d.manager_id > 0 /\ ~HasUser(d.manager_id)
    \/ d.department_id > 0 /\ ~HasDepartment(d.department_id)
    \/ d.office_id > 0 /\ ~HasOffice(d.office_id)

NotFoundDetails == { "Manager not found", "Department not found", "Office not found" }

Finishes(r) == reqs[r].pc # "done" /\ reqs'[r].pc = "done"

\* C14: a step that ends a createUser request in 400, 401 or 403 leaves the
\* accounts, departments and offices as they were; the accounts change only
\* in the step that ends a createUser request in 201, which appends exactly
\* one row, the request's, and leaves every other row as it was; departments
\* and offices never change; no step of a login or getUsers request changes
\* the store.
C14_Step ==
    /\ departments' = departments
    /\ offices' = offices
    /\ users' # users
         => \E r \in Procs :
                /\ reqs[r].op = "createUser"
                /\ Finishes(r)
                /\ reqs'[r].code = 201
    /\ \A r \in Procs :
           /\ ( reqs'[r].op = "createUser" /\ Finishes(r) /\ reqs'[r].code \in {400, 401, 403} )
                => users' = users
           /\ ( reqs'[r].op = "createUser" /\ Finishes(r) /\ reqs'[r].code = 201 )
                => /\ Len(users') = Len(users) + 1
                   /\ SubSeq(users', 1, Len(users)) = users
                   /\ users'[Len(users')].id = reqs'[r].new_id
                   /\ users'[Len(users')].email = reqs[r].user_data.email
           /\ ( reqs'[r].op \in {"login", "getUsers"} /\ reqs'[r] # reqs[r] )
                => UNCHANGED store

C14_AllOrNothing == [][C14_Step]_vars

\* with two accounts stored, a createUser request was refused for its
\* e-mail, and the directory still holds the two accounts
C14_Witness ==
    /\ Len(users) = 2
    /\ nextUserId = 3
    /\ \E r \in Procs :
           /\ reqs[r].op = "createUser"
           /\ reqs[r].pc = "done"
           /\ reqs[r].code = 400
           /\ reqs[r].detail = "Email already registered"


\* the first 72 bytes of the UTF-8 encoding of a password
Prefix72(password) ==
    LET bytes == Encode(password)
    IN  [ i \in 1..Min(Len(bytes), 72) |-> bytes[i] ]

\* C15: verify_password(p, get_password_hash(q)) is true exactly when the
\* first 72 bytes of the UTF-8 encodings of p and q are equal, whatever salt
\* the hash drew, so verify_password(p, get_password_hash(p)) is true; for a
\* stored digest that is malformed verify_password returns false.  This
\* holds of the functions for all the passwords and salts tried, and of
\* every result recorded.
C15_RoundTrip ==
    /\ \A p \in HashPasswords, q \in HashPasswords, salt \in HashSalts :
           verify_password(p, get_password_hash(q, salt)) <=> Prefix72(p) = Prefix72(q)
    /\ \A p \in HashPasswords : ~verify_password(p, MalformedDigest)
    /\ hasher.verified
         => IF hasher.digest.wellformed
            THEN hasher.result <=> Prefix72(hasher.plain_password) = Prefix72(hasher.password)
            ELSE ~hasher.result

\* a password of 74 bytes was hashed with the third salt, and another
\* password that shares its first 72 bytes and no more was verified
C15_Witness ==
    /\ hasher.verified
    /\ hasher.digest.wellformed
    /\ hasher.digest.salt = NumHashSalts
    /\ Len(Encode(hasher.password)) = 74
    /\ hasher.plain_password # hasher.password
    /\ Len(Encode(hasher.plain_password)) = 73
    /\ hasher.result


\* the manager reference of the account with this id
ManagerOf(id) == (CHOOSE u \in UserById(users, id) : TRUE).manager_id

\* following manager references from `id` ends, within n steps, at an
\* account without manager
RECURSIVE ReachesRoot(_, _)
ReachesRoot(id, n) ==
    IF id = NoId THEN TRUE
    ELSE IF n = 0 \/ ~HasUser(id) THEN FALSE
    ELSE ReachesRoot(ManagerOf(id), n - 1)

\* C16: no stored account is its own manager, and following manager
\* references from any stored account reaches an account without manager
\* in at most as many steps as there are accounts.
C16_NoManagerCycle ==
    \A i \in 1..Len(users) :
        /\ users[i].manager_id # users[i].id
        /\ ReachesRoot(users[i].id, Len(users))

\* two requests in flight together: one named the first account as manager
\* and became the second account; the other named the id the second
\* account was to get, before it was stored, and was answered 400
C16_Witness ==
    /\ Len(users) = 2
    /\ users[2].manager_id = users[1].id
    /\ \E r1, r2 \in Procs :
           /\ r1 # r2
           /\ reqs[r1].op = "createUser" /\ reqs[r1].pc = "done"
           /\ reqs[r1].code = 201 /\ reqs[r1].new_id = users[2].id
           /\ reqs[r2].op = "createUser" /\ reqs[r2].pc = "done"
           /\ reqs[r2].code = 400 /\ reqs[r2].detail = "Manager not found"
           /\ reqs[r2].user_data.manager_id = users[2].id


\* what the payload checks answer against the accounts `us`: the first of
\* duplicate e-mail, manager, department and office not found, or 201
PayloadAnswer(d, us) ==
    IF \E i \in 1..Len(us) : us[i].email = d.email
    THEN << 400, "Email already registered" >>
    ELSE IF d.manager_id > 0 /\ ~\E i \in 1..Len(us) : us[i].id = d.manager_id
    THEN << 400, "Manager not found" >>
    ELSE IF d.department_id > 0 /\ ~HasDepartment(d.department_id)
    THEN << 400, "Department not found" >>
    ELSE IF d.office_id > 0 /\ ~HasOffice(d.office_id)
    THEN << 400, "Office not found" >>
    ELSE << 201, "Created" >>

\* what the order of checks prescribes for a request: on a directory with
\* accounts 401 without a resolved caller, then 403 for an employee, then
\* the payload; on an empty directory 400 for a role other than admin, then
\* the payload, whatever token came with the request
OrderedAnswer(q, us) ==
    IF Len(us) > 0
    THEN IF q.current_user = NoUser THEN << 401, "Not authenticated" >>
         ELSE IF q.current_user.role = EMPLOYEE
         THEN << 403, "You don't have permission to create users" >>
         ELSE PayloadAnswer(q.user_data, us)
    ELSE IF q.user_data.role # ADMIN THEN << 400, "First user must be an admin" >>
         ELSE PayloadAnswer(q.user_data, us)

\* C17: requests handled one after another.  The step that finishes a
\* createUser request answers what the order of checks prescribes against
\* the accounts stored before it: 401, then 403, then duplicate e-mail,
\* manager, department, office not found on a directory with accounts; the
\* role admin and then the same payload checks on an empty directory, with
\* no effect of the token presented.
C17_Step ==
    \A r \in Procs :
        ( reqs'[r].op = "createUser" /\ Finishes(r) )
          => << reqs'[r].code, reqs'[r].detail >> = OrderedAnswer(reqs'[r], users)

C17_OrderOfChecks == [][C17_Step]_vars

=============================================================================
